---------------------------- MODULE Spec2Model ----------------------------
(***************************************************************************)
(* A model of bin/node/cli/src/factory_impl.rs: the FactoryState           *)
(* implementation of the transaction factory's RuntimeAdapter, the key     *)
(* derivation helpers and the extrinsic signer.                            *)
(*                                                                         *)
(* Numbers.  TLC's integers are 32-bit signed, so the u32 fields whose     *)
(* width matters (index, num) and the u64 argument of new are kept as      *)
(* big-endian tuples of 16-bit limbs: a u32 is <<hi, lo>>, a u64 is        *)
(* <<l3, l2, l1, l0>>.  block_no, round and block_in_round are only        *)
(* stored and read, never added to in their own width, and are plain       *)
(* naturals drawn from small sets.                                         *)
(***************************************************************************)
EXTENDS Integers, Sequences, FiniteSets, TLC

VARIABLES
    tx_name,          \* FactoryState.tx_name
    block_no,         \* FactoryState.block_no
    start_number,     \* FactoryState.start_number
    round,            \* FactoryState.round
    block_in_round,   \* FactoryState.block_in_round
    num,              \* FactoryState.num (u32, limbs)
    index,            \* FactoryState.index (u32, limbs)
    panicked,         \* "" while the process runs, else the panic message
    ret,              \* what the most recent operation returned
    script,           \* history: the tx_name given to new
    num_arg,          \* history: the num given to new (u64, limbs)
    incs,             \* history: how many increase_index calls returned
    hist,             \* history: the kinds of the calls built so far
    last,             \* history: the most recent create_extrinsic call
    untouched,        \* history: no field was written since that call began
    sign_in,          \* the arguments of a direct call of sign
    derived           \* history: the results of the key derivation calls

vars == <<tx_name, block_no, start_number, round, block_in_round, num, index,
          panicked, ret, script, num_arg, incs, hist, last, untouched,
          sign_in, derived>>

fs_vars == <<tx_name, block_no, start_number, round, block_in_round, num, index>>

-----------------------------------------------------------------------------
(* Fixed-width numbers *)

Limb == 2 ^ 16

\* A small natural as a u32.
U32Of(n) == <<n \div Limb, n % Limb>>

U32Zero == <<0, 0>>

U32Max == <<Limb - 1, Limb - 1>>

\* x + 1 in 32 bits, wrapping.
U32WrappingSucc(x) ==
    IF x[2] < Limb - 1 THEN <<x[1], x[2] + 1>>
    ELSE IF x[1] < Limb - 1 THEN <<x[1] + 1, 0>>
    ELSE U32Zero

U32Less(x, y) == x[1] < y[1] \/ (x[1] = y[1] /\ x[2] < y[2])

\* `n as u32` for a u64 n: the low two limbs.
U64AsU32(n) == <<n[3], n[4]>>

\* A small natural as a u64.
U64Of(n) == <<0, 0, n \div Limb, n % Limb>>

\* An unbounded counter (the number of calls made), as <<hi, lo>> with
\* hi not wrapped: it equals a u32 exactly when the two tuples are equal.
CountSucc(k) == IF k[2] < Limb - 1 THEN <<k[1], k[2] + 1>> ELSE <<k[1] + 1, 0>>

-----------------------------------------------------------------------------
(* Bounds and input sets *)

\* create_extrinsic calls in one behaviour.
MaxCalls == 8

\* increase_index calls in one behaviour that starts at index 0.
MaxIncs == 2

SupportedSteps ==
    {"balances_transfer", "nicks_set_name", "nicks_clear_name",
     "authorship_set_uncles", "staking_bond", "staking_validate",
     "staking_nominate", "staking_bond_extra", "staking_unbond",
     "staking_rebond", "staking_withdraw_unbonded"}

StepNames == SupportedSteps \cup {"made_up_step"}

\* The num argument of new (u64).
NumInputs == {U64Of(3)}

\* The num arguments the constructor is tried on: 0, 3, 2^32 - 1, 2^32 + 3
\* and 2^64 - 1.
NewNumInputs ==
    {U64Of(0), U64Of(3), <<0, 0, Limb - 1, Limb - 1>>, <<0, 1, 0, 3>>,
     <<Limb - 1, Limb - 1, Limb - 1, Limb - 1>>}

BlockNos == {0, 300}

RoundNos == {0, 1}

NoRet == [op |-> "none"]

NoCall == [some |-> FALSE]

NoSignIn == [some |-> FALSE]

-----------------------------------------------------------------------------
(* FactoryState *)

FactoryStateNow ==
    [tx_name |-> tx_name, block_no |-> block_no, start_number |-> start_number,
     round |-> round, block_in_round |-> block_in_round, num |-> num,
     index |-> index]

\* RuntimeAdapter::new
new(name, n) ==
    /\ tx_name = name
    /\ num = U64AsU32(n)
    /\ round = 0
    /\ block_in_round = 0
    /\ block_no = 0
    /\ start_number = 0
    /\ index = U32Zero

Running == panicked = ""

\* The model's bound on increase_index: index is within MaxIncs of zero or
\* of the top of its 32-bit range.
IndexInBounds ==
    \/ U32Less(index, U32Of(MaxIncs))
    \/ ~U32Less(index, <<Limb - 1, Limb - 1 - MaxIncs>>)

\* self.index += 1: on overflow a build with overflow checks panics before
\* the store, a build without them wraps.
increase_index ==
    /\ Running
    /\ IndexInBounds
    /\ \/ /\ index # U32Max
          /\ index' = U32WrappingSucc(index)
          /\ incs' = CountSucc(incs)
          /\ panicked' = panicked
       \/ /\ index = U32Max
          /\ \/ /\ index' = U32WrappingSucc(index)
                /\ incs' = CountSucc(incs)
                /\ panicked' = panicked
             \/ /\ index' = index
                /\ incs' = incs
                /\ panicked' = "attempt to add with overflow"
    /\ untouched' = (untouched /\ index' = index)
    /\ UNCHANGED <<tx_name, block_no, start_number, round, block_in_round, num,
                   ret, script, num_arg, hist, last, sign_in, derived>>

set_block_no(val) ==
    /\ Running
    /\ block_no' = val
    /\ untouched' = (untouched /\ val = block_no)
    /\ UNCHANGED <<tx_name, start_number, round, block_in_round, num, index,
                   panicked, ret, script, num_arg, incs, hist, last, sign_in, derived>>

set_block_in_round(val) ==
    /\ Running
    /\ block_in_round' = val
    /\ untouched' = (untouched /\ val = block_in_round)
    /\ UNCHANGED <<tx_name, block_no, start_number, round, num, index,
                   panicked, ret, script, num_arg, incs, hist, last, sign_in, derived>>

set_round(val) ==
    /\ Running
    /\ round' = val
    /\ untouched' = (untouched /\ val = round)
    /\ UNCHANGED <<tx_name, block_no, start_number, block_in_round, num, index,
                   panicked, ret, script, num_arg, incs, hist, last, sign_in, derived>>

-----------------------------------------------------------------------------
(* Calls *)

\* Self::minimum_balance(): ExistentialDeposit::get(), an ambient constant.
ExistentialDeposit == 500

minimum_balance == ExistentialDeposit

\* pallet_indices::address::Address::Id
AddressId(account) == [address |-> "Id", id |-> account]

\* b"Marcio Oscar Diaz"
MarcioOscarDiaz ==
    <<77, 97, 114, 99, 105, 111, 32, 79, 115, 99, 97, 114, 32, 68, 105, 97, 122>>

\* Perbill::from_rational_approximation(1u32, 10u32), in parts per billion.
OneTenthPerbill == 100000000

\* H256::random(): the i-th draw a call makes from the operating system's
\* entropy, e naming the stream the call happened to get.
H256Random(e, i) == [random |-> <<e, i>>]

NumHeaders == 10

NumTargets == 16

MaxNat(a, b) == IF a >= b THEN a ELSE b

MinNat(a, b) == IF a <= b THEN a ELSE b

\* Header::new(number, extrinsics_root, state_root, parent_hash, digest)
HeaderNew(number, extrinsics_root, state_root, parent_hash, digest) ==
    [number |-> number, extrinsics_root |-> extrinsics_root,
     state_root |-> state_root, parent_hash |-> parent_hash, digest |-> digest]

\* for _ in 0..num_headers { ... uncles.push(header.clone()) }

\* Uncle headers numbered with block_no itself, without the floor of 1.
uncles_at_block_no(genesis_hash, e) ==
    [j \in 1..NumHeaders |->
        HeaderNew(block_no, H256Random(e, 2 * j - 1),
                  H256Random(e, 2 * j), genesis_hash, <<>>)]

uncles(genesis_hash, e) ==
    [j \in 1..NumHeaders |->
        HeaderNew(MaxNat(1, block_no), H256Random(e, 2 * j - 1),
                  H256Random(e, 2 * j), genesis_hash, <<>>)]


\* The target list with the loop run over 1..16 instead of 0..16.
targets_short(destination) ==
    [j \in 1..(NumTargets - 1) |-> AddressId(destination)]

\* for _ in 0..16 { targets.push(Address::Id(destination)) }
targets(destination) == [j \in 1..NumTargets |-> AddressId(destination)]

Built(function, next) == [ok |-> TRUE, function |-> function, next |-> next]

\* The arm of the match for the step name given: the call built and the
\* value tx_name has after the arm, or the panic of the last arm.
match_arm(step, destination, amount, genesis_hash, e) ==
    CASE step = "balances_transfer" ->
           Built([pallet |-> "Balances", call |-> "transfer",
                  dest |-> AddressId(destination), value |-> amount], step)
      [] step = "nicks_set_name" ->
           Built([pallet |-> "Nicks", call |-> "set_name",
                  name |-> MarcioOscarDiaz], step)
      [] step = "nicks_clear_name" ->
           Built([pallet |-> "Nicks", call |-> "clear_name"], step)
      [] step = "authorship_set_uncles" ->
           Built([pallet |-> "Authorship", call |-> "set_uncles",
                  new_uncles |-> uncles(genesis_hash, e)], step)
      [] step = "staking_bond" ->
           Built([pallet |-> "Staking", call |-> "bond",
                  controller |-> AddressId(destination), value |-> amount,
                  payee |-> "Controller"], "staking_validate")
      [] step = "staking_validate" ->
           Built([pallet |-> "Staking", call |-> "validate",
                  commission |-> OneTenthPerbill], "staking_nominate")
      [] step = "staking_nominate" ->
           Built([pallet |-> "Staking", call |-> "nominate",
                  targets |-> targets(destination)], "staking_bond_extra")
      [] step = "staking_bond_extra" ->
           Built([pallet |-> "Staking", call |-> "bond_extra",
                  value |-> minimum_balance * 2], "staking_unbond")
      [] step = "staking_unbond" ->
           Built([pallet |-> "Staking", call |-> "unbond",
                  value |-> minimum_balance * 2], "staking_rebond")
      [] step = "staking_rebond" ->
           Built([pallet |-> "Staking", call |-> "rebond",
                  value |-> minimum_balance], "staking_withdraw_unbonded")
      [] step = "staking_withdraw_unbonded" ->
           Built([pallet |-> "Staking", call |-> "withdraw_unbonded"],
                 "staking_bond_extra")
      [] OTHER ->
           [ok |-> FALSE,
            msg |-> "Extrinsic " \o step \o " is not supported yet!"]

\* A cycle that goes back to its first step after withdraw_unbonded.
match_tx_name_restart(destination, amount, genesis_hash, e) ==
    LET m == match_arm(tx_name, destination, amount, genesis_hash, e)
    IN  IF tx_name = "staking_withdraw_unbonded"
        THEN [m EXCEPT !.next = "staking_bond"] ELSE m

\* A set_name arm that moves on to clear_name.
match_tx_name_drift(destination, amount, genesis_hash, e) ==
    LET m == match_arm(tx_name, destination, amount, genesis_hash, e)
    IN  IF tx_name = "nicks_set_name"
        THEN [m EXCEPT !.next = "nicks_clear_name"] ELSE m

\* A last arm that builds a default call instead of panicking.
match_tx_name_default(destination, amount, genesis_hash, e) ==
    LET m == match_arm(tx_name, destination, amount, genesis_hash, e)
    IN  IF m.ok THEN m
        ELSE Built([pallet |-> "Nicks", call |-> "clear_name"], tx_name)


\* Staking arms that take their value from the amount argument.
match_tx_name_amount(destination, amount, genesis_hash, e) ==
    LET m == match_arm(tx_name, destination, amount, genesis_hash, e)
    IN  IF tx_name \in {"staking_bond_extra", "staking_unbond", "staking_rebond"}
        THEN [m EXCEPT !.function.value = amount] ELSE m


\* A rebond arm that moves on to a misspelt step name.
match_tx_name_typo(destination, amount, genesis_hash, e) ==
    LET m == match_arm(tx_name, destination, amount, genesis_hash, e)
    IN  IF tx_name = "staking_rebond"
        THEN [m EXCEPT !.next = "staking_withdraw_unbounded"] ELSE m

\* A withdraw_unbonded arm that goes back to validate.
match_tx_name_revalidate(destination, amount, genesis_hash, e) ==
    LET m == match_arm(tx_name, destination, amount, genesis_hash, e)
    IN  IF tx_name = "staking_withdraw_unbonded"
        THEN [m EXCEPT !.next = "staking_validate"] ELSE m

\* let function = match self.tx_name.as_str() { ... }
match_tx_name(destination, amount, genesis_hash, e) ==
    match_arm(tx_name, destination, amount, genesis_hash, e)

-----------------------------------------------------------------------------
(* Signed extra *)

Immortal == [era |-> "Immortal"]

Mortal(period, phase) == [era |-> "Mortal", period |-> period, phase |-> phase]

Pow2(k) == 2 ^ k

RECURSIVE PowerOfTwoFrom(_, _)
PowerOfTwoFrom(p, n) == IF p >= n THEN p ELSE PowerOfTwoFrom(2 * p, n)

\* u64::checked_next_power_of_two, for the periods the model uses.
NextPowerOfTwo(n) == PowerOfTwoFrom(1, n)

RECURSIVE TrailingZeros(_)
\* u64::trailing_zeros, for a nonzero number.
TrailingZeros(n) == IF n % 2 = 1 THEN 0 ELSE 1 + TrailingZeros(n \div 2)

\* Era::mortal(period, current)
EraMortal(period, current) ==
    LET p == MinNat(MaxNat(NextPowerOfTwo(period), 4), Pow2(16))
        phase == current % p
        quantize_factor == MaxNat(p \div 4096, 1)
        quantized_phase == (phase \div quantize_factor) * quantize_factor
    IN  Mortal(p, quantized_phase)

MortalPeriod == 256


\* An extra whose nonce is the account's index as extract_index reads it
\* instead of the nonce handed in.
build_extra_read_nonce(nonce, phase) ==
    [check_version |-> "CheckVersion",
     check_genesis |-> "CheckGenesis",
     check_era |-> EraMortal(MortalPeriod, phase),
     check_nonce |-> U32Zero,
     check_weight |-> "CheckWeight",
     charge_transaction_payment |-> 0,
     default |-> "Default"]

\* FactoryState::build_extra
build_extra(nonce, phase) ==
    [check_version |-> "CheckVersion",
     check_genesis |-> "CheckGenesis",
     check_era |-> EraMortal(MortalPeriod, phase),
     check_nonce |-> nonce,
     check_weight |-> "CheckWeight",
     charge_transaction_payment |-> 0,
     default |-> "Default"]

\* extract_phase: self.block_no() as Self::Phase
extract_phase(block_hash) == block_no

\* extract_index
extract_index(account_id, block_hash) == U32Zero

-----------------------------------------------------------------------------
(* The codec, as far as sign depends on it *)

\* Encode for Era: Immortal is one zero byte, Mortal the u16
\* min(15, max(1, trailing_zeros(period) - 1)) | ((phase / quantize_factor) << 4).
EncodeEra(era) ==
    IF era.era = "Immortal" THEN 0
    ELSE LET quantize_factor == MaxNat(era.period \div 4096, 1)
         IN  MinNat(15, MaxNat(1, TrailingZeros(era.period) - 1))
               + (((era.phase \div quantize_factor) * 16) % Pow2(16))

\* Decode for Era.
DecodeEra(encoded) ==
    IF encoded % 256 = 0 THEN [ok |-> TRUE, val |-> Immortal]
    ELSE LET period == 2 * Pow2(encoded % 16)
             quantize_factor == MaxNat(period \div 4096, 1)
             phase == (encoded \div 16) * quantize_factor
         IN  IF period >= 4 /\ phase < period
             THEN [ok |-> TRUE, val |-> Mortal(period, phase)]
             ELSE [ok |-> FALSE, err |-> "Invalid period and phase"]

\* The length in bytes of Compact<T> for a plain natural.
CompactLen(n) ==
    IF n < 64 THEN 1 ELSE IF n < 16384 THEN 2 ELSE IF n < 1073741824 THEN 4 ELSE 5

\* The length in bytes of Compact<u32> for a u32 in limbs.
CompactLenU32(x) ==
    IF x[1] = 0 THEN (IF x[2] < 64 THEN 1 ELSE IF x[2] < 16384 THEN 2 ELSE 4)
    ELSE IF x[1] < 16384 THEN 4 ELSE 5

\* Address::Id(AccountId32): a 0xff byte and the 32-byte id.
AddressLen == 33

\* Header: parent_hash, Compact number, state_root, extrinsics_root, digest.
HeaderLen(h) == 32 + CompactLen(h.number) + 32 + 32 + CompactLen(Len(h.digest))

RECURSIVE SumHeaderLen(_)
SumHeaderLen(hs) ==
    IF hs = <<>> THEN 0 ELSE HeaderLen(Head(hs)) + SumHeaderLen(Tail(hs))

\* The length of an encoded Call: module and call index, then the arguments.
CallLen(c) ==
    2 + CASE c.call = "transfer" -> AddressLen + CompactLen(c.value)
          [] c.call = "set_name" -> CompactLen(Len(c.name)) + Len(c.name)
          [] c.call = "clear_name" -> 0
          [] c.call = "set_uncles" ->
               CompactLen(Len(c.new_uncles)) + SumHeaderLen(c.new_uncles)
          [] c.call = "bond" -> AddressLen + CompactLen(c.value) + 1
          [] c.call = "validate" -> CompactLen(c.commission)
          [] c.call = "nominate" ->
               CompactLen(Len(c.targets)) + Len(c.targets) * AddressLen
          [] c.call \in {"bond_extra", "unbond", "rebond"} -> CompactLen(c.value)
          [] c.call = "withdraw_unbonded" -> 0

\* The length of an encoded SignedExtra: the era, the nonce and the fee; the
\* other checks are empty.
ExtraLen(extra) ==
    (IF extra.check_era.era = "Immortal" THEN 1 ELSE 2)
      + CompactLenU32(extra.check_nonce)
      + CompactLen(extra.charge_transaction_payment)

\* The length of (u32, H256, H256, (), (), (), ()).
AdditionalSignedLen == 4 + 32 + 32

\* payload.using_encoded(|b| ...): the bytes b of (function, extra,
\* additional_signed), kept as the encoded parts and their total length.
EncodePayload(function, extra, additional_signed) ==
    [function |-> function,
     extra |-> [extra EXCEPT !.check_era = EncodeEra(extra.check_era)],
     additional_signed |-> additional_signed,
     len |-> CallLen(function) + ExtraLen(extra) + AdditionalSignedLen]

\* sp_io::hashing::blake2_256
blake2_256(b) == [blake2_256 |-> b]

\* sr25519::Pair::sign: the signature is identified by the key and the
\* message signed.
KeySign(key, message) == [signed_by |-> key, message |-> message]

\* Encode for UncheckedExtrinsic.
Encode(s) ==
    [signature |->
        IF s.signature.some
        THEN [some |-> TRUE, address |-> s.signature.address,
              signature |-> s.signature.signature,
              extra |-> [s.signature.extra EXCEPT
                            !.check_era = EncodeEra(s.signature.extra.check_era)]]
        ELSE [some |-> FALSE],
     function |-> s.function]

\* Decode for UncheckedExtrinsic.
Decode(e) ==
    IF ~e.signature.some
    THEN [ok |-> TRUE, val |-> [signature |-> [some |-> FALSE],
                                function |-> e.function]]
    ELSE LET era == DecodeEra(e.signature.extra.check_era)
         IN  IF era.ok
             THEN [ok |-> TRUE,
                   val |-> [signature |->
                               [some |-> TRUE, address |-> e.signature.address,
                                signature |-> e.signature.signature,
                                extra |-> [e.signature.extra EXCEPT
                                              !.check_era = era.val]],
                            function |-> e.function]]
             ELSE [ok |-> FALSE, err |-> era.err]

-----------------------------------------------------------------------------
(* sign *)

SignedBy(account, extra) == [some |-> TRUE, account |-> account, extra |-> extra]

Unsigned == [some |-> FALSE]

CheckedExtrinsic(signed, function) == [signed |-> signed, function |-> function]

HashThreshold == 256

\* A closure that already hashes a payload of exactly 256 bytes.
SigningInputFrom256(b) == IF b.len >= HashThreshold THEN blake2_256(b) ELSE b

\* The closure given to using_encoded: what is signed for the bytes b.
SigningInput(b) == IF b.len > HashThreshold THEN blake2_256(b) ELSE b

\* let s = match xt.signed { ... }

\* A sign that signs the unsigned case too, with the key it was given and
\* a default extra.
sign_build_keyed(xt, key, additional_signed) ==
    LET extra == IF xt.signed.some THEN xt.signed.extra
                 ELSE build_extra(U32Zero, 0)
        account == IF xt.signed.some THEN xt.signed.account ELSE key
        b == EncodePayload(xt.function, extra, additional_signed)
    IN  [signature |-> [some |-> TRUE,
                        address |-> AddressId(account),
                        signature |-> KeySign(key, SigningInput(b)),
                        extra |-> extra],
         function |-> xt.function]

sign_build(xt, key, additional_signed) ==
    IF xt.signed.some
    THEN LET b == EncodePayload(xt.function, xt.signed.extra, additional_signed)
         IN  [signature |-> [some |-> TRUE,
                             address |-> AddressId(xt.signed.account),
                             signature |-> KeySign(key, SigningInput(b)),
                             extra |-> xt.signed.extra],
              function |-> xt.function]
    ELSE [signature |-> [some |-> FALSE], function |-> xt.function]

\* A decode whose failure is swallowed: the default extrinsic is returned.
sign_decode_or_default(e) ==
    LET d == Decode(e)
    IN  IF d.ok THEN [ok |-> TRUE, val |-> d.val]
        ELSE [ok |-> TRUE,
              val |-> [signature |-> [some |-> FALSE], function |-> e.function]]

\* Decode::decode(&mut &e[..]).expect("Failed to decode ...")
sign_decode(e) ==
    LET d == Decode(e)
    IN  IF d.ok THEN [ok |-> TRUE, val |-> d.val]
        ELSE [ok |-> FALSE,
              msg |-> "Failed to decode signed unchecked extrinsic: " \o d.err]

\* fn sign
sign(xt, key, additional_signed) ==
    sign_decode(Encode(sign_build(xt, key, additional_signed)))

-----------------------------------------------------------------------------
(* create_extrinsic *)

\* The arguments of create_extrinsic the model draws from: sender, key,
\* destination, amount, version, genesis_hash, prior_block_hash.
CallInputs ==
    {<<"acc1", "key1", "acc2", 1, 1, "hash1", "hash2">>,
     <<"acc2", "key2", "acc1", 70, 1, "hash2", "hash1">>,
     <<"acc1", "key1", "acc1", 70, 1, "hash2", "hash2">>,
     <<"acc2", "key1", "acc2", 1, 1, "hash1", "hash1">>}

\* The operating system's entropy streams a call may get.
NumEntropy == 2

\* The streams that make a difference to a call: only the authorship arm
\* draws from the entropy.
EntropyStreams ==
    IF tx_name = "authorship_set_uncles" THEN 1..NumEntropy ELSE {1}

AdditionalSigned(version, genesis_hash, prior_block_hash) ==
    [version |-> version, genesis_hash |-> genesis_hash,
     prior_block_hash |-> prior_block_hash]

\* A create_extrinsic that also advances the nonce counter.
create_extrinsic_frame_bump ==
    /\ index' = U32WrappingSucc(index)
    /\ UNCHANGED <<block_no, start_number, round, block_in_round, num>>


\* A create_extrinsic that starts a new round.
create_extrinsic_frame_new_round ==
    /\ block_in_round' = 0
    /\ round' = round + 1
    /\ UNCHANGED <<block_no, start_number, num, index>>

\* The fields create_extrinsic does not write.
create_extrinsic_frame ==
    UNCHANGED <<block_no, start_number, round, block_in_round, num, index>>

create_extrinsic(sender, key, destination, amount, version, genesis_hash, prior_block_hash) ==
    /\ Running
    /\ Len(hist) < MaxCalls
    /\ \E e \in EntropyStreams :
       \E m \in {match_tx_name(destination, amount, genesis_hash, e)} :
        IF ~m.ok
        THEN /\ panicked' = m.msg
             /\ UNCHANGED <<fs_vars, ret, hist, last, untouched>>
        ELSE \E r \in {sign(CheckedExtrinsic(
                                SignedBy(sender,
                                         build_extra(index,
                                             extract_phase(prior_block_hash))),
                                m.function),
                            key,
                            AdditionalSigned(version, genesis_hash,
                                             prior_block_hash))} :
             /\ tx_name' = m.next
             /\ panicked' = IF r.ok THEN panicked ELSE r.msg
             /\ ret' = IF r.ok
                       THEN [op |-> "create_extrinsic", val |-> r.val]
                       ELSE ret
             /\ hist' = Append(hist, m.function.call)
             /\ last' = [some |-> TRUE,
                         args |-> <<sender, key, destination, amount,
                                    version, genesis_hash, prior_block_hash>>,
                         function |-> m.function,
                         next |-> m.next]
             /\ untouched' = (m.next = tx_name)
             /\ create_extrinsic_frame
    /\ UNCHANGED <<script, num_arg, incs, sign_in, derived>>

-----------------------------------------------------------------------------
(* inherent_extrinsics *)

MinimumPeriod == 1500

TimestampIdentifier == "timstap0"

FinalityIdentifier == "finalnum"

\* InherentData::put_data: an error when the identifier is already there.
put_data(data, identifier, value) ==
    IF identifier \in DOMAIN data
    THEN [ok |-> FALSE]
    ELSE [ok |-> TRUE, data |-> data @@ (identifier :> value)]


\* The timestamp taken from the block number without the step to the next
\* block.
timestamp_unshifted == block_no * MinimumPeriod

\* let timestamp = (self.block_no as u64 + 1) * MinimumPeriod::get();
timestamp == (block_no + 1) * MinimumPeriod

inherent_extrinsics ==
    /\ Running
    /\ LET first == put_data(<<>>, TimestampIdentifier, timestamp)
           second == put_data(first.data, FinalityIdentifier, block_no)
       IN  IF ~first.ok
           THEN panicked' = "Failed putting timestamp inherent" /\ ret' = ret
           ELSE IF ~second.ok
           THEN panicked' = "Failed putting finalized number inherent" /\ ret' = ret
           ELSE /\ ret' = [op |-> "inherent_extrinsics", val |-> second.data]
                /\ panicked' = panicked
    /\ UNCHANGED <<fs_vars, script, num_arg, incs, hist, last, untouched, sign_in,
                   derived>>

-----------------------------------------------------------------------------
(* Key derivation *)

SeedLen == 32

\* StdRng seeded by seed_from_u64(seed): its i-th byte, identified by the
\* seed and the position in the stream.
StdRngGen(seed, i) == [seed_from_u64 |-> seed, draw |-> i]

\* A generator seeded from the seed and the state's nonce counter.
gen_seed_bytes_stateful(seed) ==
    [i \in 1..SeedLen |-> StdRngGen(<<seed, index>>, i)]

\* fn gen_seed_bytes
gen_seed_bytes(seed) == [i \in 1..SeedLen |-> StdRngGen(seed, i)]

\* sr25519::Pair::from_seed
PairFromSeed(seed_bytes) == [pair_from_seed |-> seed_bytes]

\* pair.public()
PairPublic(pair) == [public_of |-> pair.pair_from_seed]

\* AccountPublic::from(public).into_account()
IntoAccount(public) == [account_of |-> public]

gen_random_account_id_value(seed) ==
    IntoAccount(PairPublic(PairFromSeed(gen_seed_bytes(seed))))

gen_random_account_secret_value(seed) == PairFromSeed(gen_seed_bytes(seed))

\* The seeds the model derives keys from.
Seeds == {0, 7}

gen_random_account_id(seed) ==
    /\ Running
    /\ derived' = derived \cup
          {[fn |-> "gen_random_account_id", seed |-> seed,
            val |-> gen_random_account_id_value(seed)]}
    /\ UNCHANGED <<fs_vars, panicked, ret, script, num_arg, incs, hist, last, untouched,
                   sign_in>>

gen_random_account_secret(seed) ==
    /\ Running
    /\ derived' = derived \cup
          {[fn |-> "gen_random_account_secret", seed |-> seed,
            val |-> gen_random_account_secret_value(seed)]}
    /\ UNCHANGED <<fs_vars, panicked, ret, script, num_arg, incs, hist, last, untouched,
                   sign_in>>

-----------------------------------------------------------------------------
(* sign, called on its own *)

SignEras == {Immortal, Mortal(256, 44), Mortal(100, 3), Mortal(100, 50)}

SignExtras ==
    {[build_extra(nonce, 0) EXCEPT !.check_era = era] :
        nonce \in {U32Zero, U32Max}, era \in SignEras}

SetName(len) == [pallet |-> "Nicks", call |-> "set_name",
                 name |-> [i \in 1..len |-> 0]]

SignFunctions ==
    {SetName(17), SetName(180), SetName(181),
     [pallet |-> "Nicks", call |-> "clear_name"],
     [pallet |-> "Staking", call |-> "nominate", targets |-> targets("acc2")]}

SignInputs ==
    {[some |-> TRUE, xt |-> CheckedExtrinsic(signed, function), key |-> key,
      additional_signed |-> additional_signed] :
        signed \in {Unsigned} \cup
                   {SignedBy(a, x) : a \in {"acc1", "acc2"}, x \in SignExtras},
        function \in SignFunctions,
        key \in {"key1", "key2"},
        additional_signed \in {AdditionalSigned(1, "hash1", "hash2"),
                               AdditionalSigned(1, "hash2", "hash1")}}

sign_call ==
    /\ Running
    /\ sign_in.some
    /\ ret = NoRet
    /\ \E r \in {sign(sign_in.xt, sign_in.key, sign_in.additional_signed)} :
         /\ panicked' = IF r.ok THEN panicked ELSE r.msg
         /\ ret' = IF r.ok THEN [op |-> "sign", val |-> r.val] ELSE ret
    /\ UNCHANGED <<fs_vars, script, num_arg, incs, hist, last, untouched, sign_in,
                   derived>>

-----------------------------------------------------------------------------
Common ==
    /\ panicked = ""
    /\ ret = NoRet
    /\ incs = index
    /\ hist = <<>>
    /\ last = NoCall
    /\ untouched = FALSE
    /\ derived = {}

\* A FactoryState just constructed.
Init ==
    /\ \E name \in StepNames, n \in NumInputs :
          new(name, n) /\ script = name /\ num_arg = n
    /\ sign_in = NoSignIn
    /\ Common

Mutators ==
    \/ increase_index
    \/ \E val \in BlockNos : set_block_no(val)
    \/ \E val \in RoundNos : set_block_in_round(val)
    \/ \E val \in RoundNos : set_round(val)

Next ==
    \/ Mutators
    \/ \E a \in CallInputs :
          create_extrinsic(a[1], a[2], a[3], a[4], a[5], a[6], a[7])
    \/ inherent_extrinsics

Spec == Init /\ [][Next]_vars

\* A FactoryState whose index has been increased to within MaxIncs of the
\* top of its range.
InitWrap ==
    /\ \E name \in {"balances_transfer", "staking_bond"} :
          /\ tx_name = name /\ script = name
    /\ num_arg = U64Of(3)
    /\ num = U64AsU32(U64Of(3))
    /\ round = 0
    /\ block_in_round = 0
    /\ block_no = 0
    /\ start_number = 0
    /\ index = <<Limb - 1, Limb - 1 - MaxIncs>>
    /\ sign_in = NoSignIn
    /\ Common

SpecWrap == InitWrap /\ [][Next]_vars

\* Key derivation between the other operations.
InitKeys ==
    /\ new("staking_bond", U64Of(3)) /\ script = "staking_bond"
    /\ num_arg = U64Of(3)
    /\ sign_in = NoSignIn
    /\ Common

NextKeys ==
    \/ \E seed \in Seeds : gen_random_account_id(seed)
    \/ \E seed \in Seeds : gen_random_account_secret(seed)
    \/ Next

SpecKeys == InitKeys /\ [][NextKeys]_vars

\* sign applied to one CheckedExtrinsic.
InitSign ==
    /\ new("balances_transfer", U64Of(0)) /\ script = "balances_transfer"
    /\ num_arg = U64Of(0)
    /\ sign_in \in SignInputs
    /\ Common

NextSign == sign_call

SpecSign == InitSign /\ [][NextSign]_vars

\* The constructor on every step name and a range of num arguments, and
\* the operations that leave a trace in the history after it.
InitNew ==
    /\ \E name \in StepNames, n \in NewNumInputs :
          new(name, n) /\ script = name /\ num_arg = n
    /\ sign_in = NoSignIn
    /\ Common

NextNew ==
    \/ increase_index
    \/ inherent_extrinsics

SpecNew == InitNew /\ [][NextNew]_vars

-----------------------------------------------------------------------------
(* Properties *)

\* A step in which create_extrinsic built a call.
CallBuilt == Len(hist') = Len(hist) + 1

ExpectedCycle ==
    <<"bond", "validate", "nominate", "bond_extra", "unbond", "rebond",
      "withdraw_unbonded", "bond_extra">>

\* C1: from a FactoryState constructed with staking_bond, the first seven
\* create_extrinsic calls build bond, validate, nominate, bond_extra, unbond,
\* rebond, withdraw_unbonded in this order and the eighth builds bond_extra.
C1_StepCycle ==
    script = "staking_bond" =>
        \A i \in 1..Len(hist) : i <= Len(ExpectedCycle) => hist[i] = ExpectedCycle[i]

C1_Witness == script = "staking_bond" /\ Len(hist) >= Len(ExpectedCycle)

SelfSteps ==
    {"balances_transfer", "nicks_set_name", "nicks_clear_name",
     "authorship_set_uncles"}

SelfCall(step) ==
    CASE step = "balances_transfer" -> "transfer"
      [] step = "nicks_set_name" -> "set_name"
      [] step = "nicks_clear_name" -> "clear_name"
      [] step = "authorship_set_uncles" -> "set_uncles"

\* C2: at balances_transfer, nicks_set_name, nicks_clear_name and
\* authorship_set_uncles create_extrinsic leaves the step as it is, so every
\* call of a FactoryState constructed with one of them builds that step's call.
C2_SelfTransition ==
    script \in SelfSteps =>
        /\ tx_name = script
        /\ \A i \in 1..Len(hist) : hist[i] = SelfCall(script)

C2_Witness == script = "nicks_set_name" /\ Len(hist) >= 3

\* C3: create_extrinsic at a step outside the eleven supported names panics
\* with a message naming the step, returns nothing and leaves the
\* FactoryState as it was.
C3_UnsupportedStep ==
    [][(/\ tx_name \notin SupportedSteps
        /\ \E a \in CallInputs :
              create_extrinsic(a[1], a[2], a[3], a[4], a[5], a[6], a[7]))
       => /\ panicked' = "Extrinsic " \o tx_name \o " is not supported yet!"
          /\ ret' = ret
          /\ hist' = hist
          /\ UNCHANGED fs_vars]_vars

C3_Witness ==
    /\ panicked = "Extrinsic made_up_step is not supported yet!"
    /\ tx_name = "made_up_step"
    /\ index = U32Of(1)

\* C4 as claimed: every create_extrinsic call advances index by exactly one.
C4_CreateAdvancesIndex == [][CallBuilt => index' = U32WrappingSucc(index)]_vars

\* C4 as amended: create_extrinsic leaves index as it is; index changes only
\* in an increase_index call, which advances it by one.
C4_IndexAdvancesOnlyByIncrease ==
    [][/\ CallBuilt => index' = index
       /\ index' # index =>
            /\ incs' = CountSucc(incs)
            /\ index' = U32WrappingSucc(index)
            /\ hist' = hist]_vars

\* Two extrinsics were built and between them only increase_index moved
\* the nonce.
C4_Witness ==
    /\ Len(hist) >= 2
    /\ index = U32Of(1)
    /\ ret.op = "create_extrinsic"
    /\ ret.val.signature.extra.check_nonce = index

\* C5: after k increase_index calls on a fresh FactoryState index() is k.
C5_IndexCountsIncreases == index = incs

\* C6: no operation lowers index.
C6_IndexMonotonic == [][~U32Less(index', index)]_vars

\* The payload sign_call's arguments make sign encode.
SignPayload ==
    EncodePayload(sign_in.xt.function, sign_in.xt.signed.extra,
                  sign_in.additional_signed)

\* C7: sign signs a payload of at most 256 bytes as its raw bytes and a
\* payload of 257 bytes or more as its 256-bit hash.
C7_HashingBoundary ==
    (ret.op = "sign" /\ sign_in.xt.signed.some) =>
        /\ ret.val.signature.some
        /\ ret.val.signature.signature.signed_by = sign_in.key
        /\ SignPayload.len <= 256 =>
              ret.val.signature.signature.message = SignPayload
        /\ SignPayload.len >= 257 =>
              ret.val.signature.signature.message = blake2_256(SignPayload)

C7_Witness ==
    /\ ret.op = "sign"
    /\ sign_in.xt.signed.some
    /\ SignPayload.len = 256
    /\ ret.val.signature.signature.message = SignPayload

\* The extrinsic sign_call's arguments make sign build.
SignBuilt == sign_build(sign_in.xt, sign_in.key, sign_in.additional_signed)

CanonicalEra(era) ==
    era.era = "Mortal" => era = EraMortal(era.period, era.phase)

C9_SameCallForSameInputs ==
    [][(/\ CallBuilt
        /\ last.some
        /\ untouched
        /\ last'.args = last.args)
       => /\ last'.function = last.function
          /\ last'.next = last.next]_vars

\* C10: every gen_random_account_id(s) returns the same account id and every
\* gen_random_account_secret(s) the same pair, whatever happened in between.
C10_DerivationDeterministic ==
    \A x \in derived, y \in derived :
        (x.fn = y.fn /\ x.seed = y.seed) => x.val = y.val

C10_Witness ==
    /\ Cardinality(derived) = 2 * Cardinality(Seeds)
    /\ index # U32Zero
    /\ Len(hist) >= 2

\* C11: a create_extrinsic call made at staking_nominate builds a nominate
\* call whose target list has exactly 16 entries, each of them the address
\* of the destination argument, whatever the destination, the sender, the
\* amount and the rest of the FactoryState are.
C11_NominateTargets ==
    [][(CallBuilt /\ tx_name = "staking_nominate") =>
          /\ last'.function.call = "nominate"
          /\ ret'.val.function = last'.function
          /\ Len(last'.function.targets) = 16
          /\ \A j \in 1..16 :
                last'.function.targets[j] =
                    [address |-> "Id", id |-> last'.args[3]]]_vars

C11_Witness ==
    /\ last.some
    /\ last.function.call = "nominate"
    /\ Len(last.function.targets) = 16
    /\ last.args[3] # last.args[1]
    /\ last.function.targets[16].id = last.args[3]

\* C12: in every state inherent_extrinsics succeeds, without a collision of
\* identifiers, and returns a mapping of exactly two entries: the timestamp
\* identifier to (block_no + 1) times the minimum period and the
\* finality-tracker identifier to block_no.  It leaves the FactoryState as
\* it is.
C12_InherentData ==
    [][inherent_extrinsics =>
          /\ panicked' = ""
          /\ ret'.op = "inherent_extrinsics"
          /\ DOMAIN ret'.val = {TimestampIdentifier, FinalityIdentifier}
          /\ Cardinality(DOMAIN ret'.val) = 2
          /\ ret'.val[TimestampIdentifier] = (block_no + 1) * MinimumPeriod
          /\ ret'.val[FinalityIdentifier] = block_no
          /\ UNCHANGED fs_vars]_vars

\* In every state that has not panicked inherent_extrinsics can be called.
C12_InherentEnabled == Running => ENABLED inherent_extrinsics

C12_Witness ==
    /\ ret.op = "inherent_extrinsics"
    /\ ret.val[FinalityIdentifier] = 300
    /\ ret.val[TimestampIdentifier] = 301 * MinimumPeriod
    /\ block_no = 300
    /\ Len(hist) >= 1

\* The state is the one the constructor returned: no operation of SpecNew
\* has been called on it.
JustConstructed == incs = U32Zero /\ ret = NoRet /\ panicked = ""

\* The u32 that num() returns, as the u64 the constructor was given.
NumAsU64 == <<0, 0, num[1], num[2]>>

\* C13: after new(name, n), for every n, num() returns n, the current step
\* is name, and block_no, start_number, round, block_in_round and index are
\* all 0.
C13_NewStoresArguments ==
    JustConstructed =>
        /\ NumAsU64 = num_arg
        /\ tx_name = script
        /\ block_no = 0
        /\ start_number = 0
        /\ round = 0
        /\ block_in_round = 0
        /\ index = U32Zero

\* The part of C13 that the constructor does meet: everything but num for
\* every n, and num for n below 2^32.
C13_NewBelowTwoTo32 ==
    JustConstructed =>
        /\ (num_arg[1] = 0 /\ num_arg[2] = 0) => NumAsU64 = num_arg
        /\ tx_name = script
        /\ block_no = 0
        /\ start_number = 0
        /\ round = 0
        /\ block_in_round = 0
        /\ index = U32Zero

\* C14: the bond_extra and unbond calls carry exactly twice the minimum
\* balance, the rebond call exactly the minimum balance, and the
\* withdraw_unbonded call carries no amount, whatever the amount argument of
\* create_extrinsic is.
C14_StakingAmounts ==
    [][CallBuilt =>
          /\ tx_name \in {"staking_bond_extra", "staking_unbond"} =>
                last'.function.value = 2 * ExistentialDeposit
          /\ tx_name = "staking_rebond" =>
                last'.function.value = ExistentialDeposit
          /\ tx_name = "staking_withdraw_unbonded" =>
                /\ "value" \notin DOMAIN last'.function
                /\ DOMAIN last'.function = {"pallet", "call"}
          /\ tx_name \in {"staking_bond_extra", "staking_unbond",
                          "staking_rebond", "staking_withdraw_unbonded"} =>
                ret'.val.function = last'.function]_vars

C14_Witness ==
    /\ script = "staking_bond_extra"
    /\ Len(hist) >= 4
    /\ last.function.call = "withdraw_unbonded"
    /\ last.args[4] = 70
    /\ ret.op = "create_extrinsic"

\* C15: the set_uncles call carries exactly 10 headers; the number of each
\* is max(1, block_no) for the block_no of the call, and the parent link of
\* each is the genesis hash given to the call.
C15_UncleHeaders ==
    [][(CallBuilt /\ tx_name = "authorship_set_uncles") =>
          /\ last'.function.call = "set_uncles"
          /\ ret'.val.function = last'.function
          /\ Len(last'.function.new_uncles) = 10
          /\ \A j \in 1..10 :
                /\ last'.function.new_uncles[j].number =
                       (IF block_no >= 1 THEN block_no ELSE 1)
                /\ last'.function.new_uncles[j].parent_hash = last'.args[6]]_vars

C15_Witness ==
    /\ last.some
    /\ last.function.call = "set_uncles"
    /\ block_no = 0
    /\ last.function.new_uncles[10].number = 1
    /\ last.function.new_uncles[10].parent_hash = "hash2"
    /\ untouched

\* C16: given a CheckedExtrinsic without signed data, sign returns an
\* UncheckedExtrinsic that has no signature and whose function is the input
\* function; the key and additional_signed have no effect on it.
C16_UnsignedPassThrough ==
    (sign_in.some /\ ~sign_in.xt.signed.some) =>
        /\ panicked = ""
        /\ ret.op = "sign" =>
              ret.val = [signature |-> [some |-> FALSE],
                         function |-> sign_in.xt.function]

C16_Witness ==
    /\ sign_in.some
    /\ ~sign_in.xt.signed.some
    /\ sign_in.key = "key2"
    /\ sign_in.xt.function = SetName(181)
    /\ ret.op = "sign"
    /\ ~ret.val.signature.some

\* The call each supported step builds.
CallOfStep(step) ==
    CASE step = "balances_transfer" -> "transfer"
      [] step = "nicks_set_name" -> "set_name"
      [] step = "nicks_clear_name" -> "clear_name"
      [] step = "authorship_set_uncles" -> "set_uncles"
      [] step = "staking_bond" -> "bond"
      [] step = "staking_validate" -> "validate"
      [] step = "staking_nominate" -> "nominate"
      [] step = "staking_bond_extra" -> "bond_extra"
      [] step = "staking_unbond" -> "unbond"
      [] step = "staking_rebond" -> "rebond"
      [] step = "staking_withdraw_unbonded" -> "withdraw_unbonded"

\* What C17 says of a returned extrinsic apart from the phase: it is signed,
\* names the sender, carries the call of the step that was current when the
\* call started, and its nonce is index() at the time of the call.
ReturnedSignedBySender ==
    /\ ret'.op = "create_extrinsic"
    /\ ret'.val.signature.some
    /\ ret'.val.signature.address = [address |-> "Id", id |-> last'.args[1]]
    /\ ret'.val.signature.signature.signed_by = last'.args[2]
    /\ ret'.val.function = last'.function
    /\ ret'.val.function.call = CallOfStep(tx_name)
    /\ ret'.val.signature.extra.check_nonce = index

\* C17 as claimed: every extrinsic create_extrinsic returns is signed, names
\* the sender as signer, carries the call of the step current at the start
\* of the call, a nonce equal to index() and a mortality window of period
\* 256 whose phase equals block_no at the time of the call.
C17_PhaseIsBlockNo ==
    [][(CallBuilt /\ panicked' = "") =>
          /\ ReturnedSignedBySender
          /\ ret'.val.signature.extra.check_era =
                 [era |-> "Mortal", period |-> 256, phase |-> block_no]]_vars

\* C17 as amended: the same, with the phase of the mortality window equal
\* to block_no modulo 256.
C17_PhaseIsBlockNoMod256 ==
    [][(CallBuilt /\ panicked' = "") =>
          /\ ReturnedSignedBySender
          /\ ret'.val.signature.extra.check_era =
                 [era |-> "Mortal", period |-> 256,
                  phase |-> block_no % 256]]_vars

C17_Witness ==
    /\ ret.op = "create_extrinsic"
    /\ last.some
    /\ block_no = 300
    /\ untouched
    /\ ret.val.signature.extra.check_era = Mortal(256, 44)
    /\ ret.val.signature.extra.check_nonce = U32Of(2)
    /\ ret.val.signature.address.id = "acc2"

\* The message of the panic in the last arm of the match.
UnsupportedPanics ==
    {"Extrinsic " \o step \o " is not supported yet!" :
        step \in StepNames \cup {"staking_withdraw_unbounded"}}

\* C18: in a FactoryState constructed with a supported name, after any
\* sequence of create_extrinsic, increase_index, setter and
\* inherent_extrinsics calls, the current step is a supported name, and the
\* panic for an unsupported step has not happened.
C18_StepStaysSupported ==
    script \in SupportedSteps =>
        /\ tx_name \in SupportedSteps
        /\ panicked \notin UnsupportedPanics
        /\ \A i \in 1..Len(hist) :
              hist[i] \in {CallOfStep(step) : step \in SupportedSteps}

C18_Witness ==
    /\ script = "staking_validate"
    /\ Len(hist) = 8
    /\ ret.op = "inherent_extrinsics"
    /\ incs = U32Of(2)
    /\ round = 1
    /\ tx_name = "staking_rebond"

OneOffCalls == {"bond", "validate", "nominate"}

\* C19: once the step has left staking_bond, staking_validate or
\* staking_nominate, that step is never current again (no later call builds
\* its call, and it is not the current step); from staking_bond_extra on
\* the step goes round a cycle of four, so that the step after four further
\* create_extrinsic calls is the step before them.
C19_OneOffStepsAndCycle ==
    /\ \A i \in 1..Len(hist) :
          hist[i] \in OneOffCalls =>
              /\ tx_name # "staking_" \o hist[i]
              /\ \A j \in (i + 1)..Len(hist) : hist[j] # hist[i]
    /\ \A i \in 1..Len(hist) :
          (hist[i] \in {"bond_extra", "unbond", "rebond", "withdraw_unbonded"}
             /\ i + 4 <= Len(hist))
              => hist[i + 4] = hist[i]
    /\ (Len(hist) >= 4 /\ hist[Len(hist) - 3] \in
            {"bond_extra", "unbond", "rebond", "withdraw_unbonded"})
          => tx_name = "staking_" \o hist[Len(hist) - 3]

C19_Witness ==
    /\ script = "staking_bond"
    /\ Len(hist) = 8
    /\ hist[1] = "bond"
    /\ hist[4] = "bond_extra"
    /\ hist[8] = "bond_extra"
    /\ tx_name = "staking_unbond"

\* A step of create_extrinsic: the only operation that records a call, and
\* the only one that ends in the panic for an unsupported step.
CreateExtrinsicStep ==
    \/ CallBuilt
    \/ panicked = "" /\ panicked' \in UnsupportedPanics

\* C20: create_extrinsic leaves block_no, start_number, round,
\* block_in_round and num as they are; each setter changes its own field
\* and nothing else of the FactoryState; increase_index changes nothing but
\* index; and neither the setters nor increase_index change the step.
C20_Frame ==
    [][/\ CreateExtrinsicStep
          => UNCHANGED <<block_no, start_number, round, block_in_round, num>>
       /\ (\E val \in BlockNos : set_block_no(val))
          => UNCHANGED <<tx_name, start_number, round, block_in_round, num,
                         index>>
       /\ (\E val \in RoundNos : set_block_in_round(val))
          => UNCHANGED <<tx_name, block_no, start_number, round, num, index>>
       /\ (\E val \in RoundNos : set_round(val))
          => UNCHANGED <<tx_name, block_no, start_number, block_in_round,
                         num, index>>
       /\ increase_index
          => UNCHANGED <<tx_name, block_no, start_number, round,
                         block_in_round, num>>]_vars

C20_Witness ==
    /\ Len(hist) >= 2
    /\ block_no = 300
    /\ round = 1
    /\ block_in_round = 1
    /\ index = U32Of(1)
    /\ tx_name = "staking_nominate"
    /\ script = "staking_bond"

=============================================================================
